---- MODULE Spec2Model ----
(***************************************************************************)
(* Model of the WebSocket relays of LLM-BESTCODE (llm1.js: the first       *)
(* relay and the authenticated llm3 relay; stream.js; the /ws/llm handler  *)
(* of finalserver.js; jsforsh.js) and of validateUserSession.              *)
(*                                                                         *)
(* Text is modelled as a sequence of one-character strings.  Every async   *)
(* handler is cut at its awaits: one action per segment that runs without  *)
(* yielding to the event loop.                                             *)
(***************************************************************************)
EXTENDS Integers, Sequences, FiniteSets, TLC

----------------------------------------------------------------------------
(* Bounds of the model *)

\* connections per server in the lifecycle specification
MaxConns == 2
\* prompt handler invocations in the lifecycle specification
MaxReqs == 2
\* ticks of the millisecond clock read by Date.now()
MaxClock == 1
\* lines of an upstream response body in the decoder specification
MaxLines == 3
\* cookies in one Cookie header in the authentication specification
MaxCookies == 2
\* characters per upstream read in the lifecycle specification
RelayChunk == 4
\* prompts a client sends on one connection
MaxPrompts == 2
\* characters per upstream read in the one-connection specification
SessionChunk == 3
\* characters per upstream read in the specification with fairness
LiveChunk == 4

----------------------------------------------------------------------------
(* Strings *)

\* String.prototype.startsWith
StartsWith(s, p) == Len(s) >= Len(p) /\ SubSeq(s, 1, Len(p)) = p

\* String.prototype.substring(k)
Substring(s, k) == SubSeq(s, k + 1, Len(s))

\* String.prototype.indexOf(ch): 0-based, -1 when absent
IndexOf(s, ch) ==
  IF \E i \in 1..Len(s) : s[i] = ch
  THEN (CHOOSE i \in 1..Len(s) : s[i] = ch /\ \A j \in 1..(i - 1) : s[j] # ch) - 1
  ELSE -1

\* String.prototype.trim() === '' : only white space ("s" is a blank)
IsBlank(s) == \A i \in 1..Len(s) : s[i] = "s"

\* String.prototype.trim
RECURSIVE TrimLeft(_)
TrimLeft(s) == IF s # <<>> /\ Head(s) = "s" THEN TrimLeft(Tail(s)) ELSE s

RECURSIVE TrimRight(_)
TrimRight(s) ==
  IF s # <<>> /\ s[Len(s)] = "s" THEN TrimRight(SubSeq(s, 1, Len(s) - 1)) ELSE s

Trim(s) == TrimRight(TrimLeft(s))

\* String.prototype.split('\n'): "n" is the line feed; never an empty array
RECURSIVE SplitLines(_)
SplitLines(s) ==
  LET k == IndexOf(s, "n")
  IN  IF k = -1 THEN <<s>>
      ELSE <<SubSeq(s, 1, k)>> \o SplitLines(Substring(s, k + 1))

\* concatenation of a sequence of strings
RECURSIVE Flatten(_)
Flatten(ss) == IF ss = <<>> THEN <<>> ELSE Head(ss) \o Flatten(Tail(ss))

----------------------------------------------------------------------------
(* validateUserSession *)

\* The Cookie header is text over these characters; "N" stands for the
\* nine characters of the literal sessionId, "i" and "j" are identifier
\* characters, "g" a signature character, "x" any other character.
NoHeader == <<>>

\* first capture group of cookieHeader.match(/sessionId=([^;]+)/), or <<>>
\* when the pattern does not match (the group itself is never empty)
SessionMatch(h) ==
  LET starts == {p \in 1..(Len(h) - 2) :
                   h[p] = "N" /\ h[p + 1] = "=" /\ h[p + 2] # ";"}
  IN  IF starts = {} THEN <<>>
      ELSE LET p == CHOOSE q \in starts : \A o \in starts : q <= o
               rest == Substring(h, p + 1)
               k == IndexOf(rest, ";")
           IN  IF k = -1 THEN rest ELSE SubSeq(rest, 1, k)

\* decodeURIComponent: %3A is ':' and %33 is '3'; any other escape over the
\* model's characters is malformed (URIError)
RECURSIVE DecodeOk(_)
DecodeOk(s) ==
  IF s = <<>> THEN TRUE
  ELSE IF Head(s) # "%" THEN DecodeOk(Tail(s))
  ELSE /\ Len(s) >= 3
       /\ SubSeq(s, 2, 3) \in {<<"3", "A">>, <<"3", "3">>}
       /\ DecodeOk(Substring(s, 3))

RECURSIVE decodeURIComponent(_)
decodeURIComponent(s) ==
  IF s = <<>> THEN <<>>
  ELSE IF Head(s) # "%" THEN <<Head(s)>> \o decodeURIComponent(Tail(s))
  ELSE (IF SubSeq(s, 2, 3) = <<"3", "A">> THEN <<":">> ELSE <<"3">>)
         \o decodeURIComponent(Substring(s, 3))

\* "Clean session ID" and "Remove signature"; threw: decodeURIComponent
\* raised URIError
CleanSessionId(raw) ==
  LET s1 == IF StartsWith(raw, <<"s", ":">>) THEN Substring(raw, 2) ELSE raw
      enc == StartsWith(s1, <<"s", "%", "3", "A">>)
      bad == enc /\ ~DecodeOk(s1)
      s2 == IF enc /\ ~bad THEN Substring(decodeURIComponent(s1), 2) ELSE s1
      dot == IndexOf(s2, ".")
  IN  [threw |-> bad,
       id |-> IF dot > -1 THEN SubSeq(s2, 1, dot) ELSE s2]

\* A row of the sessions table: its data column is a JSON document with a
\* userId ("json", userId 0 when the field is missing), the JSON text null
\* ("null"), or text that is not JSON ("garbage"); "none": no such row.
SessionRows ==
  {[kind |-> "none", userId |-> 0], [kind |-> "garbage", userId |-> 0],
   [kind |-> "null", userId |-> 0], [kind |-> "json", userId |-> 0],
   [kind |-> "json", userId |-> 1], [kind |-> "json", userId |-> 2]}

NoRow == [kind |-> "none", userId |-> 0]

\* SELECT data FROM sessions WHERE session_id = ?
SessionRow(sessions, id) == IF id \in DOMAIN sessions THEN sessions[id] ELSE NoRow

\* The try block of validateUserSession.  fail names the pool.execute call
\* that rejects (0: none, 1: the session query, 2: the user query).
\* kind "throw": an exception left the block at that step.
SessionTry(cookieHeader, sessions, users, fail, innerCatch) ==
  LET none == [kind |-> "return", user |-> 0, key |-> <<>>, queries |-> 0]
      raw == SessionMatch(cookieHeader)
      clean == CleanSessionId(raw)
      row == SessionRow(sessions, clean.id)
  IN  IF cookieHeader = NoHeader THEN none
      ELSE IF raw = <<>> THEN none
      ELSE IF clean.threw THEN [none EXCEPT !.kind = "throw"]
      ELSE IF fail = 1
        THEN [kind |-> "throw", user |-> 0, key |-> clean.id, queries |-> 1]
      ELSE IF row.kind = "none"
        THEN [kind |-> "return", user |-> 0, key |-> clean.id, queries |-> 1]
      ELSE IF row.kind = "garbage"
        THEN [kind |-> IF innerCatch THEN "return" ELSE "throw",
              user |-> 0, key |-> clean.id, queries |-> 1]
      ELSE IF row.kind = "null"
        THEN [kind |-> "throw", user |-> 0, key |-> clean.id, queries |-> 1]
      ELSE IF row.userId = 0
        THEN [kind |-> "return", user |-> 0, key |-> clean.id, queries |-> 1]
      ELSE IF fail = 2
        THEN [kind |-> "throw", user |-> 0, key |-> clean.id, queries |-> 2]
      ELSE [kind |-> "return",
            user |-> IF row.userId \in users THEN row.userId ELSE 0,
            key |-> clean.id, queries |-> 2]

\* the same function without its catch block: the exception propagates
SessionNoCatch(cookieHeader, sessions, users, fail, innerCatch) ==
  LET t == SessionTry(cookieHeader, sessions, users, fail, innerCatch)
  IN  [threw |-> t.kind = "throw", user |-> t.user, key |-> t.key,
       queries |-> t.queries]

\* try { ... } catch (error) { return null }: user 0 is null
SessionCatch(cookieHeader, sessions, users, fail, innerCatch) ==
  LET t == SessionTry(cookieHeader, sessions, users, fail, innerCatch)
  IN  [threw |-> FALSE, user |-> IF t.kind = "throw" THEN 0 ELSE t.user,
       key |-> t.key, queries |-> t.queries]

\* llm1.js (llm3 section): JSON.parse has a try/catch of its own
validateUserSession(cookieHeader, sessions, users, fail) ==
  SessionCatch(cookieHeader, sessions, users, fail, TRUE)

\* stream.js and finalserver.js: one try/catch around the whole body
validateUserSessionStream(cookieHeader, sessions, users, fail) ==
  SessionCatch(cookieHeader, sessions, users, fail, FALSE)

----------------------------------------------------------------------------
(* The relays: state *)

VARIABLES
  variant,   \* which server runs: "first", "llm3" (llm1.js), "stream"
             \* (stream.js), "final" (finalserver.js) or "jsforsh"
  now,       \* the millisecond clock read by Date.now()
  conn,      \* per socket: the ws object, the connection handler's locals and
             \* the state object this connection put into activeConnections
  registry,  \* activeConnections: connectionId -> the connection whose state
             \* object is stored under it (0: no entry)
  req,       \* per invocation of the "message" handler: its locals
  vsIn,      \* arguments of a call of validateUserSession
  vsOut,     \* what the call returned
  web        \* finalserver.js, the HTTP backend: the users and reminders
             \* tables, the locals of the route handlers and of the
             \* executions of checkAndSendReminders that are under way

vars == <<variant, now, conn, registry, req, vsIn, vsOut, web>>

Variants == {"first", "llm3", "stream", "final", "jsforsh"}

\* single-flight guard and AbortController: both relays of llm1.js
Guarded(v) == v \in {"first", "llm3"}
\* carry-over buffer across reads
Buffered(v) == v \in {"llm3", "stream", "final"}
\* JSON envelopes {type, content}
Structured(v) == v \in {"stream", "final"}
\* every send is behind a readyState === OPEN test (safeSend in llm3)
ChecksOpen(v) == v \in {"first", "llm3"}

Conns == 1..MaxConns
Reqs == 1..MaxReqs
\* connectionId = Date.now().toString()
Ids == 1..(MaxClock + 1)

ConnInit ==
  [sock |-> "NONE", hs |-> "none", id |-> 0, cookie |-> NoHeader,
   user |-> 0, authKind |-> "none", closeCode |-> 0, storeFailed |-> FALSE,
   isProcessing |-> FALSE, abortController |-> 0, out |-> <<>>,
   prompts |-> 0, asked |-> <<>>, dropped |-> FALSE, sentClosed |-> FALSE,
   unhandled |-> FALSE]

ReqInit ==
  [pc |-> "free", conn |-> 0, id |-> 0, prompt |-> <<>>, body |-> <<>>,
   ending |-> "eos", pos |-> 0, buffer |-> <<>>, fullResponse |-> <<>>,
   status |-> 0, errorText |-> "", aborted |-> FALSE, sawDone |-> FALSE, splitRec |-> FALSE,
   closedInFlight |-> FALSE, exit |-> ""]

\* one message handed to ws.send
Msg(r, type, content) == [req |-> r, type |-> type, content |-> content]

----------------------------------------------------------------------------
(* The streaming decoder *)

\* The upstream body is text over: "L" and "R" (the braces of a JSON object),
\* "a" and "b" (a response field with that fragment), "d" (done: true),
\* "e" (an error field), "n" (line feed), "s" (a blank), "x" (anything else).
FieldChars == {"a", "b", "d", "e"}

\* JSON.parse(line) does not throw
ParseOk(line) ==
  LET t == Trim(line)
  IN  /\ Len(t) >= 2
      /\ t[1] = "L"
      /\ t[Len(t)] = "R"
      /\ \A i \in 2..(Len(t) - 1) : t[i] \in FieldChars

\* JSON.parse(line): a repeated key keeps its last value
JSONparse(line) ==
  LET t == Trim(line)
      at == {i \in 1..Len(t) : t[i] \in {"a", "b"}}
  IN  [response |-> IF at = {} THEN <<>>
                    ELSE <<t[CHOOSE i \in at : \A j \in at : j <= i]>>,
       done |-> \E i \in 1..Len(t) : t[i] = "d",
       error |-> \E i \in 1..Len(t) : t[i] = "e"]

\* OnRecord with fullResponse = json.response in place of +=
OnRecordAssign(v, r, data, acc) ==
  LET a1 == IF data.response # <<>>
            THEN [acc EXCEPT
                    !.full = IF Buffered(v) THEN data.response ELSE @,
                    !.msgs = Append(@, Msg(r, "stream", data.response))]
            ELSE acc
  IN  IF Buffered(v) /\ data.done
        THEN [a1 EXCEPT
                !.msgs = Append(@, Msg(r, "complete",
                                       IF Structured(v) THEN a1.full ELSE <<>>)),
                !.sawDone = TRUE, !.stop = TRUE]
      ELSE IF v = "llm3" /\ data.error
        THEN [a1 EXCEPT !.msgs = Append(@, Msg(r, "error", <<"e">>)),
                        !.stop = TRUE]
      ELSE a1

\* the body of the try block in the for loop, for one parsed record;
\* stop: the for loop is left by break
OnRecord(v, r, data, acc) ==
  LET a1 == IF data.response # <<>>
            THEN [acc EXCEPT
                    !.full = IF Buffered(v) THEN @ \o data.response ELSE @,
                    !.msgs = Append(@, Msg(r, "stream", data.response))]
            ELSE acc
  IN  IF Buffered(v) /\ data.done
        THEN [a1 EXCEPT
                !.msgs = Append(@, Msg(r, "complete",
                                       IF Structured(v) THEN a1.full ELSE <<>>)),
                !.sawDone = TRUE, !.stop = TRUE]
      ELSE IF v = "llm3" /\ data.error
        THEN [a1 EXCEPT !.msgs = Append(@, Msg(r, "error", <<"e">>)),
                        !.stop = TRUE]
      ELSE a1

\* for (const line of lines) { ... }
RECURSIVE LoopLines(_, _, _, _)
LoopLines(v, r, lines, acc) ==
  IF lines = <<>> THEN acc
  ELSE IF IsBlank(Head(lines)) \/ ~ParseOk(Head(lines))
    THEN LoopLines(v, r, Tail(lines), acc)
  ELSE LET a1 == OnRecord(v, r, JSONparse(Head(lines)), acc)
       IN  IF a1.stop THEN a1 ELSE LoopLines(v, r, Tail(lines), a1)

\* CarryOver without the buffer: each read is split on its own
CarryNothing(v, buffer, chunk) == chunk

\* the text that is split into lines after a read
CarryOver(v, buffer, chunk) == IF Buffered(v) THEN buffer \o chunk ELSE chunk

\* one pass of the while loop after reader.read() returned a chunk
OnChunk(v, r, buffer, full, chunk) ==
  LET all == SplitLines(CarryOver(v, buffer, chunk))
      lines == IF Buffered(v) THEN SubSeq(all, 1, Len(all) - 1) ELSE all
      acc == LoopLines(v, r, lines,
                       [full |-> full, msgs |-> <<>>, sawDone |-> FALSE,
                        stop |-> FALSE])
  IN  [buffer |-> IF Buffered(v) THEN all[Len(all)] ELSE <<>>,
       full |-> acc.full, msgs |-> acc.msgs, sawDone |-> acc.sawDone]

----------------------------------------------------------------------------
(* The relays: helpers of the handlers *)

\* the sessions and users tables seen by the relay's handshake
RelaySessions == [k \in {<<"i">>} |-> [kind |-> "json", userId |-> 1]]
RelayUsers == {1}

\* Cookie headers presented at the handshake: none, sessionId=s:i.g
RelayCookies == {NoHeader, <<"N", "=", "s", ":", "i", ".", "g">>}

\* The prompt is text over: "c", "i" (lower-case letters), "C", "B" (the
\* capitals of c and b), "b", "x" (any other character).
\* The list has lower-case entries ("ci") and one entry with capitals
\* ('Big O', here "B").
CODING_KEYWORDS == {<<"c", "i">>, <<"B">>}

\* prompts sent by the client
Prompts == {<<"C", "i">>, <<"x", "c", "i">>, <<"c", "x", "i">>, <<"B">>}

\* the prompt of the relays that do not look at it
AnyPrompt == <<"c", "i">>

\* String.prototype.toLowerCase
toLowerCase(s) ==
  [i \in 1..Len(s) |->
     IF s[i] = "C" THEN "c" ELSE IF s[i] = "B" THEN "b" ELSE s[i]]

\* String.prototype.includes
Includes(s, k) ==
  \E i \in 1..(Len(s) - Len(k) + 1) : SubSeq(s, i, i + Len(k) - 1) = k

\* isCodeRelated without toLowerCase
isCodeRelatedExact(prompt) ==
  \E keyword \in CODING_KEYWORDS : Includes(prompt, keyword)

\* isCodeRelated(prompt)
isCodeRelated(prompt) ==
  LET lowerPrompt == toLowerCase(prompt)
  IN  \E keyword \in CODING_KEYWORDS : Includes(lowerPrompt, keyword)

\* ws.send(data) for each of msgs; safeSend and the guarded sends test
\* readyState first; a send on a socket that is not OPEN delivers nothing;
\* sentClosed: send was called after the socket's close event
Send(cn, v, c, msgs) ==
  IF msgs = <<>> THEN cn
  ELSE IF cn[c].sock = "OPEN" THEN [cn EXCEPT ![c].out = @ \o msgs]
  ELSE IF ChecksOpen(v) \/ cn[c].sock # "CLOSED" THEN cn
  ELSE [cn EXCEPT ![c].sentClosed = TRUE]

\* finally: if (activeConnections.has(connectionId)) { isProcessing = false;
\* abortController = null }, on the object now stored under the id
ResetFlags(cn, reg, id) ==
  IF reg[id] # 0
  THEN [cn EXCEPT ![reg[id]].isProcessing = FALSE,
                  ![reg[id]].abortController = 0]
  ELSE cn

\* connection.abortController.abort() on the object stored under the id
Abort(rq, cn, reg, id) ==
  IF reg[id] # 0 /\ cn[reg[id]].abortController # 0
  THEN [rq EXCEPT ![cn[reg[id]].abortController].aborted = TRUE]
  ELSE rq

\* the error message of the catch block; llm3 picks it by substrings of
\* err.message, the others send err.message
Classify(v, err, status, text) ==
  IF v # "llm3" THEN err
  ELSE IF err = "fetch failed" \/ (err = "status" /\ text = "fetch failed")
    THEN "connect"
  ELSE IF err = "status" /\ (status = 404 \/ text = "404") THEN "model"
  ELSE err

\* CatchMsgs without the test of err.name: an abort is reported like any
\* other exception
CatchAll(v, r, err, status, text) ==
  <<Msg(r, "error", <<Classify(v, err, status, text)>>)>>

\* catch (err): what is sent for an exception named err
CatchMsgs(v, r, err, status, text) ==
  IF Guarded(v) /\ err = "AbortError" THEN <<>>
  ELSE <<Msg(r, "error", <<Classify(v, err, status, text)>>)>>

\* the handler is left: the messages of its last segment are sent, then the
\* finally block runs; in llm3 it first awaits reader.cancel() when the
\* reader exists
Leave(v, cn, rq, r, exit, msgs, reader) ==
  LET cn1 == Send(cn, v, rq[r].conn, msgs)
  IN  IF v = "llm3" /\ reader
      THEN /\ conn' = cn1
           /\ req' = [rq EXCEPT ![r].pc = "cancel", ![r].exit = exit]
      ELSE /\ conn' = IF Guarded(v) THEN ResetFlags(cn1, registry, rq[r].id)
                      ELSE cn1
           /\ req' = [rq EXCEPT ![r].pc = "done", ![r].exit = exit]

\* Gate without the test of the user: only an exception rejects
GateOpen(res) == IF res.threw THEN "error" ELSE "accept"

\* outcome of the handshake authentication
Gate(res) ==
  IF res.threw THEN "error" ELSE IF res.user = 0 THEN "reject" ELSE "accept"

\* a read that ends after body[p] cuts the text of a newline-terminated
\* record that carries a response fragment
CutsRecord(body, p) ==
  /\ p >= 1 /\ p < Len(body)
  /\ body[p] # "n" /\ body[p + 1] # "n"
  /\ LET before == {i \in 1..p : body[i] = "n"}
         after == {i \in (p + 1)..Len(body) : body[i] = "n"}
         first == IF before = {} THEN 1
                  ELSE 1 + CHOOSE i \in before : \A j \in before : j <= i
     IN  /\ after # {}
         /\ LET last == (CHOOSE i \in after : \A j \in after : i <= j) - 1
                line == SubSeq(body, first, last)
            IN  ParseOk(line) /\ JSONparse(line).response # <<>>

InFlight(r) == req[r].pc \notin {"free", "done"}

\* buffer and fullResponse declared at the scope of the connection: a new
\* prompt finds what an earlier prompt of the connection left in them
StaleLocals(rq, c) ==
  LET prev == {q \in DOMAIN rq : rq[q].conn = c /\ rq[q].pc = "done"}
  IN  IF prev = {} THEN [buffer |-> <<>>, fullResponse |-> <<>>]
      ELSE LET q == CHOOSE q \in prev : \A o \in prev : o <= q
           IN  [buffer |-> rq[q].buffer, fullResponse |-> rq[q].fullResponse]

\* let buffer = ''; let fullResponse = "": locals of one invocation of the
\* "message" handler of connection c
FreshLocals(rq, c) == [buffer |-> <<>>, fullResponse |-> <<>>]

----------------------------------------------------------------------------
(* The relays: actions *)

\* a millisecond passes between two connections
Tick ==
  /\ now < MaxClock
  /\ \E c \in Conns : conn[c].sock = "NONE"
  /\ \E c \in Conns : conn[c].sock # "NONE"
  /\ now' = now + 1
  /\ UNCHANGED <<web, variant, conn, registry, req, vsIn, vsOut>>

\* wss.on("connection"), up to its first await
Connect(c, cookies) ==
  /\ conn[c].sock = "NONE"
  /\ \A b \in Conns : b < c => conn[b].sock # "NONE"
  /\ \E h \in cookies :
       LET id == now + 1
       IN  IF variant = "llm3"
           THEN /\ conn' = [conn EXCEPT ![c].sock = "OPEN", ![c].hs = "auth",
                                        ![c].id = id, ![c].cookie = h]
                /\ UNCHANGED registry
           ELSE IF variant = "first"
           THEN /\ conn' = [conn EXCEPT ![c].sock = "OPEN", ![c].hs = "ready",
                                        ![c].id = id]
                /\ registry' = [registry EXCEPT ![id] = c]
           ELSE /\ conn' = [conn EXCEPT ![c].sock = "OPEN", ![c].hs = "ready"]
                /\ UNCHANGED registry
  /\ UNCHANGED <<web, variant, now, req, vsIn, vsOut>>

\* llm3: user = await validateUserSession(req.headers.cookie) has settled;
\* STEP 1 and STEP 2 of the connection handler
AuthResolve(c, fails) ==
  /\ variant = "llm3"
  /\ conn[c].hs = "auth"
  /\ \E fail \in fails :
       LET res == validateUserSession(conn[c].cookie, RelaySessions,
                                      RelayUsers, fail)
           went == Gate(res)
           failed == fail # 0 /\ res.queries >= fail
           cn1 == [conn EXCEPT ![c].authKind = went, ![c].user = res.user,
                               ![c].storeFailed = failed]
       IN  IF went = "accept"
           THEN /\ conn' = [Send(cn1, variant, c, <<Msg(0, "greet", <<>>)>>)
                              EXCEPT ![c].hs = "ready"]
                /\ registry' = [registry EXCEPT ![conn[c].id] = c]
           ELSE /\ conn' =
                     [Send(cn1, variant, c,
                           <<Msg(0, IF went = "error" THEN "autherr" ELSE "login",
                                 <<>>)>>)
                        EXCEPT ![c].hs = "rejected",
                               ![c].closeCode =
                                  IF went = "error" THEN 1011 ELSE 1008,
                               ![c].sock = IF @ = "OPEN" THEN "CLOSING" ELSE @]
                /\ UNCHANGED registry
  /\ UNCHANGED <<web, variant, now, req, vsIn, vsOut>>

\* the "message" handler up to its first await, for prompt p on connection c
\* whose arrival is already counted in cn
OnMessage(c, p, cn, rs) ==
  IF cn[c].hs # "ready"
  THEN \* no "message" listener is registered: the prompt is lost
       /\ conn' = [cn EXCEPT ![c].dropped = TRUE]
       /\ UNCHANGED <<registry, req>>
  ELSE LET o == IF Guarded(variant) THEN registry[cn[c].id] ELSE 0
       IN
       IF Guarded(variant) /\ o = 0
       THEN \* activeConnections.get(connectionId) is undefined
            /\ conn' = IF variant = "llm3"
                       THEN Send(cn, variant, c, <<Msg(0, "reauth", <<>>)>>)
                       ELSE [cn EXCEPT ![c].unhandled = TRUE]
            /\ UNCHANGED <<registry, req>>
       ELSE IF Guarded(variant) /\ cn[o].isProcessing
       THEN /\ conn' = IF variant = "llm3"
                       THEN Send(cn, variant, c, <<Msg(0, "wait", <<>>)>>)
                       ELSE cn
            /\ UNCHANGED <<registry, req>>
       ELSE IF variant = "final" /\ ~isCodeRelated(p)
       THEN /\ conn' = Send(cn, variant, c,
                            <<Msg(0, "complete", <<"filtered">>)>>)
            /\ UNCHANGED <<registry, req>>
       ELSE \E r \in rs :
            /\ req[r].pc = "free"
            /\ \A q \in rs : q < r => req[q].pc # "free"
            /\ req' = [req EXCEPT ![r].pc = "fetch", ![r].conn = c,
                                  ![r].id = cn[c].id,
                                  ![r].buffer = FreshLocals(req, c).buffer,
                                  ![r].fullResponse =
                                     FreshLocals(req, c).fullResponse,
                                  ![r].prompt =
                                     IF variant = "final" THEN p ELSE <<>>]
            /\ conn' =
                 LET cn1 == IF Guarded(variant)
                            THEN [cn EXCEPT ![o].isProcessing = TRUE,
                                            ![o].abortController = r]
                            ELSE cn
                 IN  IF ~Buffered(variant)
                     THEN Send(cn1, variant, c, <<Msg(r, "hello", <<>>)>>)
                     ELSE cn1
            /\ UNCHANGED registry

\* a prompt arrives on connection c
Message(c, rs) ==
  /\ \/ conn[c].sock = "OPEN"
     \/ conn[c].sock = "CLOSING" /\ conn[c].closeCode # 0
  /\ conn[c].prompts < MaxPrompts
  /\ \E p \in (IF variant = "final" THEN Prompts ELSE {AnyPrompt}) :
       OnMessage(c, p,
                 [conn EXCEPT ![c].prompts = @ + 1,
                              ![c].asked = IF variant = "final"
                                           THEN Append(@, p) ELSE @],
                 rs)
  /\ UNCHANGED <<web, variant, now, vsIn, vsOut>>

\* await fetch(...) has settled; the status and body tests, getReader() and
\* the first test at the top of the while loop
FetchResolve(r, up) ==
  /\ req[r].pc = "fetch"
  /\ LET v == variant
         c == req[r].conn
     IN  IF Guarded(v) /\ req[r].aborted
         THEN Leave(v, conn, req, r, "abort",
                    CatchMsgs(v, r, "AbortError", 0, ""), FALSE)
         ELSE \E oc \in up.outcomes :
           IF oc = "netfail"
           THEN Leave(v, conn, req, r, "setup",
                      CatchMsgs(v, r, "fetch failed", 0, ""), FALSE)
           ELSE IF oc \in {"404", "500"}
           THEN LET status == IF oc = "404" THEN 404 ELSE 500
                IN  IF v = "llm3"
                    THEN \E text \in up.texts :
                           /\ req' = [req EXCEPT ![r].pc = "text",
                                                 ![r].status = status,
                                                 ![r].errorText = text]
                           /\ UNCHANGED conn
                    ELSE Leave(v, [conn EXCEPT ![c] = @],
                               [req EXCEPT ![r].status = status], r, "setup",
                               CatchMsgs(v, r, "status", status, ""), FALSE)
           ELSE IF oc = "nobody"
           THEN Leave(v, conn, req, r, "setup",
                      CatchMsgs(v, r, "nobody", 0, ""), FALSE)
           ELSE \E b \in up.bodies, e \in up.endings :
                  LET rq1 == [req EXCEPT ![r].body = b, ![r].ending = e,
                                         ![r].status = 200]
                  IN  IF Guarded(v) /\ conn[c].sock # "OPEN"
                      THEN Leave(v, conn, rq1, r, "closed", <<>>, TRUE)
                      ELSE /\ req' = [rq1 EXCEPT ![r].pc = "read"]
                           /\ UNCHANGED conn
  /\ UNCHANGED <<web, variant, now, registry, vsIn, vsOut>>

\* llm3: await response.text() of a non-success response has settled
TextResolve(r) ==
  /\ req[r].pc = "text"
  /\ IF req[r].aborted
     THEN Leave(variant, conn, req, r, "abort",
                CatchMsgs(variant, r, "AbortError", 0, ""), FALSE)
     ELSE Leave(variant, conn, req, r, "setup",
                CatchMsgs(variant, r, "status", req[r].status,
                          req[r].errorText), FALSE)
  /\ UNCHANGED <<web, variant, now, registry, vsIn, vsOut>>

\* EosMsgs of a relay that takes the end of the body without a done record
\* for a protocol violation
EosStrict(v, r, sawDone) ==
  IF ~Buffered(v) THEN <<Msg(r, "complete", <<>>)>>
  ELSE IF sawDone THEN <<>>
  ELSE <<Msg(r, "error", <<"incomplete">>)>>

\* if (done) break, and what follows the while loop: the legacy relays send
\* their completion marker, the buffered relays send nothing
EosMsgs(v, r, sawDone) ==
  IF Buffered(v) THEN <<>> ELSE <<Msg(r, "complete", <<>>)>>

\* the upstream has delivered the whole body it will ever deliver and keeps
\* the response open: the pending reader.read() settles only by an abort
Stalled(r) ==
  /\ req[r].pc = "read"
  /\ req[r].pos = Len(req[r].body)
  /\ req[r].ending = "stall"

\* await reader.read() has settled: one pass of the while loop, up to the
\* next read
ReadResolve(r, up) ==
  /\ req[r].pc = "read"
  /\ Stalled(r) => (Guarded(variant) /\ req[r].aborted)
  /\ LET v == variant
         c == req[r].conn
         left == Len(req[r].body) - req[r].pos
     IN  IF Guarded(v) /\ req[r].aborted
         THEN Leave(v, conn, req, r, "abort",
                    CatchMsgs(v, r, "AbortError", 0, ""), TRUE)
         ELSE IF left = 0
         THEN IF req[r].ending = "eos"
              THEN Leave(v, conn, req, r, "eos", EosMsgs(v, r, req[r].sawDone),
                         TRUE)
              ELSE Leave(v, conn, req, r, "error",
                         CatchMsgs(v, r, "terminated", 0, ""), TRUE)
         ELSE \E k \in {IF n < left THEN n ELSE left : n \in up.sizes} :
                LET chunk == SubSeq(req[r].body, req[r].pos + 1, req[r].pos + k)
                    res == OnChunk(v, r, req[r].buffer, req[r].fullResponse,
                                   chunk)
                    cn1 == Send(conn, v, c, res.msgs)
                    rq1 == [req EXCEPT
                              ![r].pos = @ + k,
                              ![r].buffer = res.buffer,
                              ![r].fullResponse = res.full,
                              ![r].sawDone = @ \/ res.sawDone,
                              ![r].splitRec =
                                 @ \/ CutsRecord(req[r].body, req[r].pos + k)]
                IN  IF Guarded(v) /\ conn[c].sock # "OPEN"
                    THEN Leave(v, cn1, rq1, r, "closed", <<>>, TRUE)
                    ELSE conn' = cn1 /\ req' = rq1
  /\ UNCHANGED <<web, variant, now, registry, vsIn, vsOut>>

\* llm3: await reader.cancel() in the finally block has settled
CancelResolve(r) ==
  /\ req[r].pc = "cancel"
  /\ conn' = ResetFlags(conn, registry, req[r].id)
  /\ req' = [req EXCEPT ![r].pc = "done"]
  /\ UNCHANGED <<web, variant, now, registry, vsIn, vsOut>>

\* the client's close frame arrives: readyState is CLOSING until the TCP
\* socket has ended
PeerClosing(c) ==
  /\ conn[c].sock = "OPEN"
  /\ conn' = [conn EXCEPT ![c].sock = "CLOSING"]
  /\ UNCHANGED <<web, variant, now, registry, req, vsIn, vsOut>>

\* the socket's "close" event
CloseEvent(c) ==
  /\ conn[c].sock \in {"OPEN", "CLOSING"}
  /\ conn' = [conn EXCEPT ![c].sock = "CLOSED"]
  /\ LET rq1 == [r \in Reqs |->
                   IF req[r].conn = c /\ InFlight(r)
                   THEN [req[r] EXCEPT !.closedInFlight = TRUE] ELSE req[r]]
     IN  IF Guarded(variant) /\ conn[c].hs = "ready"
         THEN /\ req' = Abort(rq1, conn, registry, conn[c].id)
              /\ registry' = [registry EXCEPT ![conn[c].id] = 0]
         ELSE /\ req' = rq1
              /\ UNCHANGED registry
  /\ UNCHANGED <<web, variant, now, vsIn, vsOut>>

\* the socket's "error" event: ws has set readyState to CLOSING
SockError(c) ==
  /\ conn[c].sock = "OPEN"
  /\ conn[c].hs = "ready"
  /\ conn' = [conn EXCEPT ![c].sock = "CLOSING"]
  /\ req' = IF Guarded(variant) THEN Abort(req, conn, registry, conn[c].id)
            ELSE req
  /\ UNCHANGED <<web, variant, now, registry, vsIn, vsOut>>

----------------------------------------------------------------------------
(* Specification of the relays: connections, prompts, closes *)

NoCall == [header |-> NoHeader, sessions |-> <<>>, users |-> {}, fail |-> 0]
NoResult == [called |-> FALSE,
             llm1 |-> [threw |-> FALSE, user |-> 0, key |-> <<>>, queries |-> 0],
             stream |-> [threw |-> FALSE, user |-> 0, key |-> <<>>, queries |-> 0]]

----------------------------------------------------------------------------
(* finalserver.js, the HTTP backend: state *)

MaxHttp == 2        \* route handlers under way at once
MaxJobs == 2        \* executions of checkAndSendReminders under way at once
MaxReminders == 2   \* rows the reminders table can hold
MaxIdLen == 3       \* characters of the :id path parameter
MaxMails == 2       \* reminder emails counted per row

\* verify-otp locks the account when otp_attempts reaches this number
OtpLimit == 5

Https == 1..MaxHttp
Jobs == 1..MaxJobs
ReminderIds == 1..MaxReminders

\* the id column of the users table
UserIds == {1, 10}

\* OTP values; 0 stands for NULL in reset_password_token
Otps == {1, 2}

\* the passwords a request may choose; 0 is the password before any reset
Passwords == {1, 2}

\* the contests table, and the contestId values a request may carry
\* (0: no contestId in the body)
ContestIds == {1, 2}
ContestInputs == {0, 1, 2, 3}

\* a row of users.  expired: reset_password_expires has passed; locked:
\* otp_locked_until is set and lies in the future
UserInit ==
  [password |-> 0, reset_password_token |-> 0, expired |-> FALSE,
   otp_attempts |-> 0, locked |-> FALSE, full_name |-> 0, avatar_url |-> 0]

\* a slot of the reminders table; live: the slot holds a row
ReminderInit == [live |-> FALSE, contest |-> 0, reminder_sent |-> FALSE,
                 due |-> FALSE, mails |-> 0]

\* the locals of one route handler
HttpInit ==
  [pc |-> "free", route |-> "none", session |-> 0, id |-> <<>>, otp |-> 0,
   newPassword |-> 0, contestId |-> 0, locked |-> FALSE, attempts |-> 0,
   status |-> 0, message |-> "none", rows |-> {}]

\* the locals of one execution of checkAndSendReminders
JobInit == [pc |-> "idle", reminders |-> <<>>, at |-> 0]

WebInit ==
  [users |-> [u \in UserIds |-> UserInit],
   reminders |-> [k \in ReminderIds |-> ReminderInit],
   http |-> [h \in Https |-> HttpInit],
   jobs |-> [j \in Jobs |-> JobInit]]

\* what the generation backend may answer in the lifecycle specification
RelayUp ==
  [outcomes |-> {"500", "ok"},
   texts |-> {"plain"},
   bodies |-> {<<"L", "a", "R", "n">>},
   endings |-> {"eos", "fail"},
   sizes |-> {RelayChunk}]

InitRelay(vs) ==
  /\ variant \in vs
  /\ now = 0
  /\ conn = [c \in Conns |-> ConnInit]
  /\ registry = [i \in Ids |-> 0]
  /\ req = [r \in Reqs |-> ReqInit]
  /\ vsIn = NoCall
  /\ vsOut = NoResult
  /\ web = WebInit

Init == InitRelay({"first", "llm3"})

Next ==
  \/ Tick
  \/ \E c \in Conns : Connect(c, RelayCookies)
  \/ \E c \in Conns : AuthResolve(c, 0..2)
  \/ \E c \in Conns : Message(c, Reqs)
  \/ \E c \in Conns : PeerClosing(c)
  \/ \E c \in Conns : CloseEvent(c)
  \/ \E c \in Conns : SockError(c)
  \/ \E r \in Reqs : FetchResolve(r, RelayUp)
  \/ \E r \in Reqs : TextResolve(r)
  \/ \E r \in Reqs : ReadResolve(r, RelayUp)
  \/ \E r \in Reqs : CancelResolve(r)

Spec == Init /\ [][Next]_vars

----------------------------------------------------------------------------
(* Specification of one prompt on one connection that stays open: the        *)
(* upstream answers with any body of up to MaxLines lines, cut into reads   *)
(* at any places                                                            *)

\* lines of an upstream body: two fragment records, a done record, an error
\* record, a line that is not JSON, and a line that is not JSON but starts
\* with the text of a record
LineMenu ==
  {<<"L", "a", "R">>, <<"L", "b", "R">>, <<"L", "d", "R">>, <<"L", "e", "R">>,
   <<"x">>, <<"L", "a", "R", "x">>}

\* the lines joined by line feeds; term: the last line has its line feed too
BodyOf(ls, term) ==
  Flatten([i \in 1..Len(ls) |->
             IF i < Len(ls) \/ term THEN ls[i] \o <<"n">> ELSE ls[i]])

StreamBodies ==
  {BodyOf(ls, term) :
     ls \in UNION {[1..k -> LineMenu] : k \in 1..MaxLines}, term \in BOOLEAN}

StreamUp ==
  [outcomes |-> {"netfail", "404", "500", "nobody", "ok"},
   texts |-> {"plain", "404", "fetch failed"},
   bodies |-> StreamBodies,
   endings |-> {"eos"},
   sizes |-> 1..(4 * MaxLines + MaxLines)]

InitStream == InitRelay(Variants)

NextStream ==
  \/ Connect(1, RelayCookies \ {NoHeader})
  \/ AuthResolve(1, {0})
  \/ Message(1, {1})
  \/ FetchResolve(1, StreamUp)
  \/ TextResolve(1)
  \/ ReadResolve(1, StreamUp)
  \/ CancelResolve(1)

SpecStream == InitStream /\ [][NextStream]_vars

----------------------------------------------------------------------------
(* Specification of one connection of any relay: prompts one after the      *)
(* other or overlapping, upstream failures, and the close of the socket     *)

\* what the generation backend may answer: a complete response, a response
\* that ends inside a line, an error record
SessionUp ==
  [outcomes |-> {"netfail", "500", "nobody", "ok"},
   texts |-> {"plain"},
   bodies |-> {<<"L", "a", "R", "n", "L", "d", "R", "n">>,
               <<"L", "b", "R", "n", "L", "a">>,
               <<"L", "e", "R", "n">>},
   endings |-> {"eos", "fail"},
   sizes |-> {SessionChunk}]

InitSession == InitRelay(Variants)

NextSession ==
  \/ Connect(1, RelayCookies \ {NoHeader})
  \/ AuthResolve(1, {0})
  \/ Message(1, Reqs)
  \/ PeerClosing(1)
  \/ CloseEvent(1)
  \/ \E r \in Reqs : FetchResolve(r, SessionUp)
  \/ \E r \in Reqs : TextResolve(r)
  \/ \E r \in Reqs : ReadResolve(r, SessionUp)
  \/ \E r \in Reqs : CancelResolve(r)

SpecSession == InitSession /\ [][NextSession]_vars

----------------------------------------------------------------------------
(* Specification of one connection with fairness: every promise the server  *)
(* awaits that can settle does settle; the client sends prompts and closes  *)
(* when it likes; the upstream may keep a response open without data        *)

\* what the generation backend may answer: a complete response, a response
\* without a done record, a record that is not followed by a line feed
LiveUp ==
  [outcomes |-> {"500", "ok"},
   texts |-> {"plain"},
   bodies |-> {<<"L", "a", "R", "n", "L", "d", "R", "n">>,
               <<"L", "a", "R", "n">>,
               <<"L", "d", "R">>},
   endings |-> {"eos", "fail", "stall"},
   sizes |-> {LiveChunk}]

InitLive == InitRelay(Variants)

\* the continuation of a "message" handler at a settled fetch,
\* response.text() or reader.cancel()
SettleStep ==
  \/ \E r \in Reqs : FetchResolve(r, LiveUp)
  \/ \E r \in Reqs : TextResolve(r)
  \/ \E r \in Reqs : CancelResolve(r)

\* the continuation of the connection handler at the settled
\* validateUserSession, and of a "message" handler at a settled reader.read()
ParseStep ==
  \/ AuthResolve(1, {0})
  \/ \E r \in Reqs : ReadResolve(r, LiveUp)

\* the steps of the server
ServerStep == SettleStep \/ ParseStep

NextLive ==
  \/ Connect(1, RelayCookies \ {NoHeader})
  \/ Message(1, Reqs)
  \/ PeerClosing(1)
  \/ CloseEvent(1)
  \/ ServerStep

\* ENABLED <<ParseStep>>_vars, read off the guards of AuthResolve and
\* ReadResolve
ParsePending ==
  \/ variant = "llm3" /\ conn[1].hs = "auth"
  \/ \E r \in Reqs :
       /\ req[r].pc = "read"
       /\ Stalled(r) => (Guarded(variant) /\ req[r].aborted)

\* WF_vars(ParseStep), with its ENABLED written as ParsePending
ParseFairness == []<>(~ParsePending) \/ []<><<ParseStep>>_vars

\* the event loop runs the continuation of every await that has settled;
\* the steps of one run are finitely many, so no handler can be passed over
\* for ever
Fairness == WF_vars(SettleStep) /\ ParseFairness

SpecLive == InitLive /\ [][NextLive]_vars /\ Fairness

----------------------------------------------------------------------------
(* Specification of validateUserSession as a function of the Cookie header  *)
(* and the store                                                            *)

CookieNames == {<<"N">>, <<"x", "N">>, <<"x">>}
CookiePrefixes == {<<>>, <<"s", ":">>, <<"s", "%", "3", "A">>}
CookieIds == {<<>>, <<"i">>, <<"j">>, <<"i", "%">>}
CookieSigs == {<<>>, <<".", "g">>, <<".", "g", "%">>}

Cookies ==
  {n \o <<"=">> \o p \o i \o g :
     n \in CookieNames, p \in CookiePrefixes, i \in CookieIds, g \in CookieSigs}

\* cookies joined by "; "
RECURSIVE JoinCookies(_)
JoinCookies(cs) ==
  IF Len(cs) = 1 THEN cs[1]
  ELSE cs[1] \o <<";", " ">> \o JoinCookies(Tail(cs))

CookieHeaders ==
  {NoHeader} \cup
  {JoinCookies(cs) : cs \in UNION {[1..k -> Cookies] : k \in 1..MaxCookies}}

\* contents of the sessions table: any row under i, a row or none under j
SessionTables ==
  {[k \in {<<"i">>, <<"j">>} |-> IF k = <<"i">> THEN ri ELSE rj] :
     ri \in SessionRows,
     rj \in {NoRow, [kind |-> "json", userId |-> 2]}}

UserTables == {{}, {1}, {1, 2}}

InitAuth ==
  /\ variant = "llm3"
  /\ now = 0
  /\ conn = [c \in Conns |-> ConnInit]
  /\ registry = [i \in Ids |-> 0]
  /\ req = [r \in Reqs |-> ReqInit]
  /\ vsIn \in [header : CookieHeaders, sessions : SessionTables,
               users : UserTables, fail : 0..2]
  /\ vsOut = NoResult
  /\ web = WebInit

\* one call of validateUserSession, in llm1.js and in stream.js
CallValidate ==
  /\ ~vsOut.called
  /\ vsOut' =
       [called |-> TRUE,
        llm1 |-> validateUserSession(vsIn.header, vsIn.sessions, vsIn.users,
                                     vsIn.fail),
        stream |-> validateUserSessionStream(vsIn.header, vsIn.sessions,
                                             vsIn.users, vsIn.fail)]
  /\ UNCHANGED <<web, variant, now, conn, registry, req, vsIn>>

NextAuth == CallValidate

SpecAuth == InitAuth /\ [][NextAuth]_vars

----------------------------------------------------------------------------
(* Specification of validateUserSession over a sessions table whose rows    *)
(* have an expires column: expired names the session ids whose expires time *)
(* has passed and whose row the store has not yet cleared                   *)

InitExpiry ==
  /\ variant = "llm3"
  /\ now = 0
  /\ conn = [c \in Conns |-> ConnInit]
  /\ registry = [i \in Ids |-> 0]
  /\ req = [r \in Reqs |-> ReqInit]
  /\ vsIn \in [header : {NoHeader} \cup Cookies, sessions : SessionTables,
               users : UserTables, fail : 0..2,
               expired : SUBSET {<<"i">>, <<"j">>}]
  /\ vsOut = NoResult
  /\ web = WebInit

SpecExpiry == InitExpiry /\ [][NextAuth]_vars

----------------------------------------------------------------------------
(* Properties: what the claims are stated in *)

\* the messages of one type sent to the client for request r, in order
RECURSIVE Pick(_, _, _)
Pick(log, r, type) ==
  IF log = <<>> THEN <<>>
  ELSE IF Head(log).req = r /\ Head(log).type = type
    THEN <<Head(log).content>> \o Pick(Tail(log), r, type)
  ELSE Pick(Tail(log), r, type)

SentFor(r, type) == Pick(conn[req[r].conn].out, r, type)

\* the newline-terminated lines of a body
CompleteLines(body) ==
  LET all == SplitLines(body) IN SubSeq(all, 1, Len(all) - 1)

\* the response fragments of the lines that are records, in order
RECURSIVE RecordFrags(_)
RecordFrags(lines) ==
  IF lines = <<>> THEN <<>>
  ELSE IF ParseOk(Head(lines)) /\ JSONparse(Head(lines)).response # <<>>
    THEN <<JSONparse(Head(lines)).response>> \o RecordFrags(Tail(lines))
  ELSE RecordFrags(Tail(lines))

\* a record after which the relay is to stop: done, or error in llm3
Stops(v, line) ==
  /\ ParseOk(line)
  /\ JSONparse(line).done \/ (v = "llm3" /\ JSONparse(line).error)

\* the lines up to and including the first record that stops the relay
UpToStop(v, lines) ==
  LET at == {i \in 1..Len(lines) : Buffered(v) /\ Stops(v, lines[i])}
  IN  IF at = {} THEN lines
      ELSE SubSeq(lines, 1, CHOOSE i \in at : \A j \in at : i <= j)

IsPrefix(a, b) == Len(a) <= Len(b) /\ SubSeq(b, 1, Len(a)) = a

RECURSIVE IsSubseq(_, _)
IsSubseq(a, b) ==
  IF a = <<>> THEN TRUE
  ELSE IF b = <<>> THEN FALSE
  ELSE IF Head(a) = Head(b) THEN IsSubseq(Tail(a), Tail(b))
  ELSE IsSubseq(a, Tail(b))

\* N >= 1 newline-terminated records that carry only a non-empty fragment,
\* then a newline-terminated record that carries only done
FragmentStream(body) ==
  LET all == SplitLines(body)
      ls == CompleteLines(body)
  IN  /\ all[Len(all)] = <<>>
      /\ Len(ls) >= 2
      /\ \A i \in 1..Len(ls) :
           /\ ParseOk(ls[i])
           /\ ~JSONparse(ls[i]).error
           /\ JSONparse(ls[i]).done = (i = Len(ls))
           /\ (JSONparse(ls[i]).response = <<>>) = (i = Len(ls))

\* the handler of r has ended by end-of-stream of the upstream body
EndedAtEos(r) == req[r].pc = "done" /\ req[r].exit = "eos"

----------------------------------------------------------------------------
(* C1..C10 *)

\* C1: in the guarded relays of llm1.js a connection never has two upstream
\* requests in flight; while its prompt is in flight the isProcessing flag
\* the guard reads is true; and once a handler of the connection has
\* finished and nothing of it is in flight, the guard lets the next prompt in.
C1_SingleFlight ==
  \A c \in Conns :
    (Guarded(variant) /\ conn[c].hs = "ready") =>
      LET mine == {r \in Reqs : req[r].conn = c /\ InFlight(r)}
          o == registry[conn[c].id]
      IN  /\ Cardinality(mine) <= 1
          /\ (mine # {} /\ o # 0) => conn[o].isProcessing
          /\ (/\ mine = {}
              /\ conn[c].sock = "OPEN"
              /\ \E r \in Reqs : req[r].conn = c /\ req[r].pc = "done")
               => (o # 0 /\ ~conn[o].isProcessing)

\* C2: when the socket closed while a prompt was in flight, that request's
\* AbortController was aborted, and once the handler has unwound the
\* connection's state object has isProcessing = false, abortController = null.
C2_CloseClearsFlags ==
  \A r \in Reqs :
    (Guarded(variant) /\ req[r].closedInFlight /\ req[r].pc = "done") =>
      /\ req[r].aborted
      /\ ~conn[req[r].conn].isProcessing
      /\ conn[req[r].conn].abortController = 0

\* C3: in the buffered relays, for a body of N fragment-only records and a
\* done record, however it is cut into reads, the fragments sent are the N
\* fragments in order, one completion signal is sent, and in the structured
\* framing its content is the concatenation of the fragments.
C3_TranscriptForwarded ==
  \A r \in Reqs :
    (Buffered(variant) /\ EndedAtEos(r) /\ FragmentStream(req[r].body)) =>
      LET want == RecordFrags(CompleteLines(req[r].body))
      IN  /\ SentFor(r, "stream") = want
          /\ Len(SentFor(r, "complete")) = 1
          /\ Structured(variant) =>
               SentFor(r, "complete")[1] = Flatten(want)
          /\ req[r].fullResponse = Flatten(want)

C3_Witness ==
  \E r \in Reqs :
    /\ variant = "stream" /\ EndedAtEos(r) /\ FragmentStream(req[r].body)
    /\ req[r].splitRec
    /\ SentFor(r, "stream") = <<<<"a">>, <<"b">>>>
    /\ SentFor(r, "complete") = <<<<"a", "b">>>>

\* C4: in the buffered relays, when a read ends inside the text of a record,
\* the fragments sent are those of whole lines only: every record up to the
\* first record that stops the relay is forwarded, in order, and nothing is
\* forwarded that is not a record of a whole line (no half line, no record
\* twice).
C4_SplitRecordOnce ==
  \A r \in Reqs :
    (Buffered(variant) /\ EndedAtEos(r) /\ req[r].splitRec) =>
      LET ls == CompleteLines(req[r].body)
      IN  /\ IsPrefix(RecordFrags(UpToStop(variant, ls)), SentFor(r, "stream"))
          /\ IsSubseq(SentFor(r, "stream"), RecordFrags(ls))

C4_Witness ==
  \E r \in Reqs :
    /\ variant = "llm3" /\ EndedAtEos(r) /\ req[r].splitRec
    /\ req[r].body = <<"L", "a", "R", "n", "L", "b", "R", "n">>
    /\ SentFor(r, "stream") = <<<<"a">>, <<"b">>>>

\* C5: in every relay variant, when the body has a newline-terminated line
\* that is not JSON, no error message is sent for it (an error message
\* answers an error record only) and every record on a later line, up to
\* the record that stops the relay, is forwarded, in order.
C5_NoiseLineSkipped ==
  \A r \in Reqs :
    EndedAtEos(r) =>
      LET ls == CompleteLines(req[r].body)
          noise == {i \in 1..Len(ls) : ~IsBlank(ls[i]) /\ ~ParseOk(ls[i])}
      IN  noise # {} =>
            LET k == CHOOSE i \in noise : \A j \in noise : i <= j
                upto == UpToStop(variant, ls)
            IN  /\ SentFor(r, "error") # <<>> =>
                     \E i \in 1..Len(ls) :
                       variant = "llm3" /\ ParseOk(ls[i]) /\ JSONparse(ls[i]).error
                /\ IsSubseq(RecordFrags(SubSeq(upto, k + 1, Len(upto))),
                            SentFor(r, "stream"))

C7_RejectedIsTerminal ==
  \A c \in Conns :
    (variant = "llm3" /\ conn[c].authKind # "none" /\ conn[c].user = 0) =>
      /\ conn[c].hs = "rejected"
      /\ conn[c].sock # "OPEN"
      /\ conn[c].closeCode # 0
      /\ \A i \in Ids : registry[i] # c
      /\ \A r \in Reqs : req[r].conn # c
      /\ ~conn[c].isProcessing

C7_Witness ==
  \E c \in Conns :
    /\ variant = "llm3" /\ conn[c].authKind # "none" /\ conn[c].user = 0
    /\ conn[c].prompts = MaxPrompts /\ conn[c].dropped
    /\ conn[c].sock = "CLOSED"

\* C8: in llm3 a handshake during which a store query failed is closed with
\* 1011, and one with no valid session and no store failure with 1008.
C8_CloseCodes ==
  \A c \in Conns :
    (variant = "llm3" /\ conn[c].authKind # "none") =>
      /\ conn[c].storeFailed => conn[c].closeCode = 1011
      /\ (~conn[c].storeFailed /\ conn[c].user = 0) => conn[c].closeCode = 1008

\* C9: in the guarded relays, when a handler of a connection has finished,
\* the connection is still open and no prompt of it is in flight, the
\* connection's isProcessing is false and its abortController is null.
C9_NoPermanentBusy ==
  \A r \in Reqs :
    LET c == req[r].conn
    IN  (/\ Guarded(variant) /\ req[r].pc = "done"
         /\ conn[c].sock = "OPEN"
         /\ \A q \in Reqs : req[q].conn = c => ~InFlight(q))
          => (~conn[c].isProcessing /\ conn[c].abortController = 0)

\* C10: in the buffered relays, once a done record has been decoded for a
\* prompt, no further read of the upstream body is consumed and nothing
\* further is sent for that prompt.
C10_StopsAfterDone ==
  [][\A r \in Reqs :
       (Buffered(variant) /\ req[r].sawDone) =>
         /\ req'[r].pos = req[r].pos
         /\ \A t \in {"stream", "complete"} :
              Pick(conn'[req[r].conn].out, r, t) =
                Pick(conn[req[r].conn].out, r, t)]_vars

----------------------------------------------------------------------------
(* C11..C20 *)

\* the records that the relay decodes before anything stops it
Decoded(v, body) == UpToStop(v, CompleteLines(body))

\* C11: in each buffered relay, when a record with an error field is
\* decoded for a prompt, an error signal is sent to the client for that
\* prompt.
C11_ErrorRecordSignalled ==
  \A r \in Reqs :
    (Buffered(variant) /\ EndedAtEos(r)) =>
      LET ls == Decoded(variant, req[r].body)
      IN  (\E i \in 1..Len(ls) : ParseOk(ls[i]) /\ JSONparse(ls[i]).error)
            => SentFor(r, "error") # <<>>

\* C12: in the relays of stream.js, finalserver.js and jsforsh.js, a prompt
\* whose response was in flight when the socket closed ends by cancelling
\* the upstream body, not by reading on to its end, and send is not called
\* on the socket after its close event.
C12_CloseCancelsUpstream ==
  \A r \in Reqs :
    (/\ ~Guarded(variant)
     /\ req[r].closedInFlight /\ req[r].status = 200 /\ req[r].pc = "done")
      => (req[r].exit = "closed" /\ ~conn[req[r].conn].sentClosed)

\* C13: in the structured-framing relays (stream.js, finalserver.js) a
\* connection has at most one upstream request in flight, and the envelopes
\* sent for two prompts are not interleaved on its socket.
C13_OneUpstreamPerConnection ==
  \A c \in Conns :
    Structured(variant) =>
      /\ Cardinality({r \in Reqs : req[r].conn = c /\ InFlight(r)}) <= 1
      /\ LET log == conn[c].out
         IN  \A i, j, k \in 1..Len(log) :
               (i < j /\ j < k /\ log[i].req # 0 /\ log[i].req = log[k].req)
                 => log[j].req \in {0, log[i].req}

\* every completion signal of r in the log carries the concatenation of the
\* fragments sent for r before it
OwnTranscript(log, r) ==
  \A j \in 1..Len(log) :
    (log[j].req = r /\ log[j].type = "complete") =>
      log[j].content = Flatten(Pick(SubSeq(log, 1, j - 1), r, "stream"))

\* C14: in the buffered relays, what is sent for a prompt is derived from
\* that prompt's own upstream response, whatever an earlier prompt of the
\* connection left behind: the fragments sent are records of whole lines
\* of its own body, all of them up to the record that stops the relay once
\* the body has ended, and the transcript and the completion content are
\* the concatenation of its own fragments.
C14_PromptsIndependent ==
  \A r \in Reqs :
    (Buffered(variant) /\ req[r].pc # "free") =>
      LET c == req[r].conn
          ls == CompleteLines(req[r].body)
      IN  /\ IsSubseq(SentFor(r, "stream"), RecordFrags(ls))
          /\ conn[c].sock = "OPEN" =>
               /\ req[r].fullResponse = Flatten(SentFor(r, "stream"))
               /\ Structured(variant) => OwnTranscript(conn[c].out, r)
               /\ EndedAtEos(r) =>
                    IsPrefix(RecordFrags(Decoded(variant, req[r].body)),
                             SentFor(r, "stream"))

C14_Witness ==
  /\ variant = "llm3"
  /\ conn[1].sock = "OPEN"
  /\ EndedAtEos(1) /\ req[1].buffer = <<"L", "a">>
  /\ req[1].fullResponse = <<"b">>
  /\ EndedAtEos(2) /\ req[2].body = <<"L", "a", "R", "n", "L", "d", "R", "n">>
  /\ SentFor(2, "stream") = <<<<"a">>>>
  /\ req[2].fullResponse = <<"a">>
  /\ Len(SentFor(2, "complete")) = 1

\* C15: in the guarded relays, a request that ended because its
\* AbortController was fired has no error message sent for it, also when
\* the socket of its connection is open.
C15_AbortIsSilent ==
  \A r \in Reqs :
    (Guarded(variant) /\ req[r].exit = "abort") => SentFor(r, "error") = <<>>

C15_Witness ==
  \E r \in Reqs :
    /\ Guarded(variant) /\ req[r].pc = "done" /\ req[r].exit = "abort"
    /\ conn[req[r].conn].sock = "OPEN"
    /\ ~req[r].closedInFlight
    /\ SentFor(r, "error") = <<>>

\* C16: in the llm3 relay, for a prompt whose upstream call failed at
\* setup, the 'model not found' message is sent exactly when the upstream
\* status is 404; any other non-success status yields the generic message
\* with the status; a failure without a status yields the 'cannot connect'
\* or the 'no response body' message.
C16_ErrorClassification ==
  \A r \in Reqs :
    (variant = "llm3" /\ req[r].pc = "done" /\ req[r].exit = "setup"
       /\ conn[req[r].conn].sock = "OPEN") =>
      LET sent == SentFor(r, "error")
      IN  /\ (sent = <<<<"model">>>>) <=> (req[r].status = 404)
          /\ req[r].status = 500 => sent = <<<<"status">>>>
          /\ req[r].status = 0 => sent \in {<<<<"connect">>>>, <<<<"nobody">>>>}

\* the single-flight guard, if the relay has one, would let a prompt of
\* connection c in
Accepts(c) ==
  Guarded(variant) =>
    (registry[conn[c].id] # 0 /\ ~conn[registry[conn[c].id]].isProcessing)

\* C17: for a prompt whose upstream call failed at setup, on a connection
\* that is open, exactly one error message and no fragment and no
\* completion signal has been sent, and when no prompt of the connection
\* is in flight the next prompt is accepted.
C17_SetupFailureReportedOnce ==
  \A r \in Reqs :
    LET c == req[r].conn
    IN  (req[r].pc = "done" /\ req[r].exit = "setup" /\ conn[c].sock = "OPEN")
          => /\ Len(SentFor(r, "error")) = 1
             /\ SentFor(r, "stream") = <<>>
             /\ SentFor(r, "complete") = <<>>
             /\ (\A q \in Reqs : req[q].conn = c => ~InFlight(q)) => Accepts(c)

\* the header whose only cookie is sessionId=s:<id><sig>, and the one with
\* the percent-encoded prefix s%3A
PlainCookie(id, sig) == <<"N", "=", "s", ":">> \o id \o sig
EncodedCookie(id, sig) == <<"N", "=", "s", "%", "3", "A">> \o id \o sig

\* C18: for an identifier without '.', ';' and '%' and any signature,
\* validateUserSession looks up the same key, the identifier, for the cookie
\* s:id.sig and for s%3Aid.sig and returns the same user, and another
\* signature does not change the user returned.
C18_EncodedCookieEquivalent ==
  vsOut.called =>
    \A id \in CookieIds, sig \in CookieSigs \ {<<>>} :
      (/\ \A i \in 1..Len(id) : id[i] \notin {".", ";", "%"}
       /\ vsIn.header = PlainCookie(id, sig)) =>
        LET enc == validateUserSession(EncodedCookie(id, sig), vsIn.sessions,
                                       vsIn.users, vsIn.fail)
            encS == validateUserSessionStream(EncodedCookie(id, sig),
                                              vsIn.sessions, vsIn.users,
                                              vsIn.fail)
        IN  /\ vsOut.llm1.key = id /\ enc.key = id /\ encS.key = id
            /\ enc.user = vsOut.llm1.user
            /\ encS.user = vsOut.stream.user
            /\ \A other \in CookieSigs \ {<<>>} :
                 /\ validateUserSession(PlainCookie(id, other), vsIn.sessions,
                                        vsIn.users, vsIn.fail).user
                      = vsOut.llm1.user
                 /\ validateUserSession(EncodedCookie(id, other),
                                        vsIn.sessions, vsIn.users,
                                        vsIn.fail).user
                      = vsOut.llm1.user

\* the cookies of a Cookie header: name=value pairs separated by "; "
RECURSIVE SplitCookies(_)
SplitCookies(h) ==
  LET k == IndexOf(h, ";")
      rest == Substring(h, k + 1)
  IN  IF k = -1 THEN <<h>>
      ELSE <<SubSeq(h, 1, k)>> \o
           SplitCookies(IF rest # <<>> /\ Head(rest) = " " THEN Tail(rest)
                        ELSE rest)

CookieName(ck) ==
  IF IndexOf(ck, "=") = -1 THEN ck ELSE SubSeq(ck, 1, IndexOf(ck, "="))

CookieValue(ck) ==
  IF IndexOf(ck, "=") = -1 THEN <<>> ELSE Substring(ck, IndexOf(ck, "=") + 1)

\* C19: validateUserSession makes no store lookup and returns null when no
\* cookie of the header is named exactly sessionId, and when there is one
\* the key it looks up is derived from the value of the first such cookie.
C19_ExactCookieName ==
  (vsOut.called /\ vsIn.header # NoHeader) =>
    LET cks == SplitCookies(vsIn.header)
        named == {i \in 1..Len(cks) : CookieName(cks[i]) = <<"N">>}
    IN  \A res \in {vsOut.llm1, vsOut.stream} :
          IF named = {}
          THEN res.queries = 0 /\ res.user = 0
          ELSE LET val == CookieValue(cks[CHOOSE i \in named :
                                            \A j \in named : i <= j])
               IN  (val # <<>> /\ ~CleanSessionId(val).threw)
                     => res.key = CleanSessionId(val).id

\* C20: in the guarded relays the registry holds an entry for a connection
\* only while its socket is open: once the socket is closed no entry of the
\* registry refers to the connection, and none is added afterwards.
C20_RegistryOnlyWhileOpen ==
  \A c \in Conns :
    (Guarded(variant) /\ conn[c].sock = "CLOSED") =>
      \A i \in Ids : registry[i] # c

----------------------------------------------------------------------------
(* C21..C30 *)

\* C21: in the guarded relays two connections that are open and accepted at
\* the same time have different connection identifiers, and each of them is
\* the connection whose state object the registry holds under its identifier.
C21_OwnRegistryEntry ==
  \A c \in Conns :
    (Guarded(variant) /\ conn[c].hs = "ready" /\ conn[c].sock = "OPEN") =>
      /\ registry[conn[c].id] = c
      /\ \A d \in Conns \ {c} :
           (conn[d].hs = "ready" /\ conn[d].sock = "OPEN")
             => conn[d].id # conn[c].id

\* C22: in the llm3 relay a request whose upstream keeps the response open
\* without delivering data is eventually ended, and the busy flag of its
\* connection cleared, while the client stays connected.
C22_StalledRequestTimesOut ==
  \A r \in Reqs :
    (variant = "llm3" /\ Stalled(r)) ~>
      (\/ conn[1].sock # "OPEN"
       \/ (req[r].pc = "done" /\ ~conn[1].isProcessing))

\* the upstream body of r has reported end-of-stream to a pending read and
\* no done record was decoded
EosPending(r) ==
  /\ req[r].pc = "read"
  /\ req[r].pos = Len(req[r].body)
  /\ req[r].ending = "eos"
  /\ ~req[r].sawDone

\* C23: in the buffered relays, when the body ends and no done record was
\* decoded, the handler ends; no error message is sent for it (an error
\* message answers an error record only); and in llm3, once the handler has
\* ended on an open connection, the connection is idle.
C23_EosWithoutDone ==
  \A r \in Reqs :
    /\ (Buffered(variant) /\ EosPending(r)) ~> (req[r].pc = "done")
    /\ [](( Buffered(variant) /\ EndedAtEos(r) /\ ~req[r].sawDone) =>
            LET c == req[r].conn
                ls == CompleteLines(req[r].body)
            IN  /\ SentFor(r, "error") # <<>> =>
                     \E i \in 1..Len(ls) :
                       variant = "llm3" /\ ParseOk(ls[i]) /\ JSONparse(ls[i]).error
                /\ (/\ variant = "llm3" /\ conn[c].sock = "OPEN"
                    /\ \A q \in Reqs : ~InFlight(q))
                     => (~conn[c].isProcessing /\ conn[c].abortController = 0))

C23_Witness ==
  \E r \in Reqs :
    /\ variant = "llm3" /\ EndedAtEos(r) /\ ~req[r].sawDone
    /\ req[r].body = <<"L", "a", "R", "n">>
    /\ conn[1].sock = "OPEN"
    /\ SentFor(r, "stream") = <<<<"a">>>>
    /\ SentFor(r, "error") = <<>>
    /\ ~conn[1].isProcessing

\* C24: in the legacy raw-text relays (jsforsh.js, the first relay of
\* llm1.js), when a read ends inside the text of a record, every record of
\* a whole line is still forwarded, in order, and nothing is forwarded that
\* is not a record of a line of the body.
C24_LegacySplitRecord ==
  \A r \in Reqs :
    (~Buffered(variant) /\ EndedAtEos(r) /\ req[r].splitRec) =>
      /\ IsSubseq(RecordFrags(CompleteLines(req[r].body)), SentFor(r, "stream"))
      /\ IsSubseq(SentFor(r, "stream"), RecordFrags(SplitLines(req[r].body)))

\* the lower-cased prompt contains an entry of CODING_KEYWORDS
HasKeyword(p) ==
  \E k \in CODING_KEYWORDS, i \in 1..Len(p) :
    /\ i + Len(k) - 1 <= Len(p)
    /\ \A j \in 1..Len(k) : toLowerCase(p)[i + j - 1] = k[j]

\* the prompts of a sequence that have a keyword (yes) or have none, in order
RECURSIVE Select(_, _)
Select(ps, yes) ==
  IF ps = <<>> THEN <<>>
  ELSE (IF HasKeyword(Head(ps)) = yes THEN <<Head(ps)>> ELSE <<>>)
         \o Select(Tail(ps), yes)

\* C25: in the /ws/llm handler of finalserver.js the prompts forwarded to
\* the generation backend are exactly those whose lower-cased text contains
\* an entry of CODING_KEYWORDS, and for each other prompt the only thing
\* sent is one 'complete' envelope with the filter message.
C25_TopicFilter ==
  \A c \in Conns :
    (variant = "final" /\ conn[c].sock = "OPEN") =>
      LET forwarded == {r \in Reqs : req[r].conn = c}
          answers == {i \in 1..Len(conn[c].out) : conn[c].out[i].req = 0}
      IN  /\ Select(conn[c].asked, TRUE) =
               [k \in 1..Cardinality(forwarded) |->
                  req[CHOOSE r \in forwarded :
                        Cardinality({q \in forwarded : q <= r}) = k].prompt]
          /\ Cardinality(answers) = Len(Select(conn[c].asked, FALSE))
          /\ \A i \in answers :
               conn[c].out[i] = Msg(0, "complete", <<"filtered">>)

C25_Witness ==
  /\ variant = "final" /\ conn[1].sock = "OPEN"
  /\ conn[1].asked = <<<<"B">>, <<"C", "i">>>>
  /\ req[1].prompt = <<"C", "i">> /\ req[1].pc = "done"
  /\ req[2].pc = "free"
  /\ Len(conn[1].out) >= 2
  /\ conn[1].out[1] = Msg(0, "complete", <<"filtered">>)

\* C26: in the llm3 relay every prompt that arrived on a connection whose
\* authentication succeeded was either forwarded to the generation backend
\* or answered with the wait or the re-authenticate notice.
C26_NoPromptDiscarded ==
  \A c \in Conns :
    (variant = "llm3" /\ conn[c].authKind = "accept" /\ conn[c].sock = "OPEN")
      => conn[c].prompts =
           Cardinality({r \in Reqs : req[r].conn = c}) +
           Cardinality({i \in 1..Len(conn[c].out) :
                          conn[c].out[i].type \in {"wait", "reauth"}})

\* C27: in the structured-framing relays (stream.js, finalserver.js) at most
\* one terminal envelope, of type 'complete' or 'error', is sent for a
\* prompt.
C27_OneTerminalEnvelope ==
  \A r \in Reqs :
    (Structured(variant) /\ req[r].pc # "free") =>
      Len(SentFor(r, "complete")) + Len(SentFor(r, "error")) <= 1

\* a terminal envelope has been sent for r
Answered(r) ==
  /\ req[r].pc # "free"
  /\ SentFor(r, "complete") # <<>> \/ SentFor(r, "error") # <<>>

\* C28: in the structured-framing relays a prompt that was forwarded
\* upstream is eventually answered with a 'complete' or an 'error' envelope,
\* unless the socket does not stay open or the upstream response neither
\* ends nor fails.
C28_EventuallyAnswered ==
  \A r \in Reqs :
    (Structured(variant) /\ req[r].pc = "fetch") ~>
      (Answered(r) \/ conn[1].sock # "OPEN" \/ Stalled(r))

\* C29: in the buffered relays, when the body ends with a record that is not
\* followed by a line feed, that record is decoded like the others: the
\* fragments of all records up to the record that stops the relay are
\* forwarded, and when the last record is that record and has done = true
\* the completion signal is sent.
C29_LastRecordDecoded ==
  \A r \in Reqs :
    LET all == SplitLines(req[r].body)
        last == all[Len(all)]
    IN  (Buffered(variant) /\ EndedAtEos(r) /\ ParseOk(last)) =>
          /\ IsSubseq(RecordFrags(UpToStop(variant, all)), SentFor(r, "stream"))
          /\ (JSONparse(last).done /\ UpToStop(variant, all) = all)
               => SentFor(r, "complete") # <<>>

\* C30: validateUserSession returns a user only from a session row whose
\* expires time has not passed.
C30_ExpiredSessionRejected ==
  vsOut.called =>
    \A res \in {vsOut.llm1, vsOut.stream} :
      res.user # 0 => res.key \notin vsIn.expired

----------------------------------------------------------------------------
(* finalserver.js: the password-reset routes.  A handler is cut at its      *)
(* awaits: the SELECT of the user row, then the UPDATE                      *)

\* the relays stand still while the HTTP backend takes a step
RelayIdle == UNCHANGED <<variant, now, conn, registry, req, vsIn, vsOut>>

InitWeb(w) ==
  /\ variant = "final"
  /\ now = 0
  /\ conn = [c \in Conns |-> ConnInit]
  /\ registry = [i \in Ids |-> 0]
  /\ req = [r \in Reqs |-> ReqInit]
  /\ vsIn = NoCall
  /\ vsOut = NoResult
  /\ web = w

\* the account the password-reset requests name by email and full_name
Account == 1

ResetRoutes == {"forgot-password", "verify-otp", "reset-password"}

\* handler h has answered: its route, what it answered and whether its
\* lookup saw the account locked
Respond(h, status, message) ==
  [HttpInit EXCEPT !.pc = "done", !.route = web.http[h].route,
                   !.locked = web.http[h].locked,
                   !.status = status, !.message = message]

\* the bodies of the requests of the three routes
ResetInputs ==
  [route : {"forgot-password"}, otp : {0}, newPassword : {0}]
    \cup [route : {"verify-otp"}, otp : {0} \cup Otps, newPassword : {0}]
    \cup [route : {"reset-password"}, otp : {0} \cup Otps,
          newPassword : Passwords]

\* a request reaches one of the three routes; the handler runs up to its
\* SELECT (otp 0: a required field is missing)
ResetRequest(h, body) ==
  /\ web.http[h].pc \in {"free", "done"}
  /\ web' = [web EXCEPT !.http[h] =
       IF body.route # "forgot-password" /\ body.otp = 0
       THEN [HttpInit EXCEPT !.pc = "done", !.route = body.route,
                             !.status = 400, !.message = "required"]
       ELSE [HttpInit EXCEPT !.pc = "select", !.route = body.route,
                             !.otp = body.otp,
                             !.newPassword = body.newPassword]]
  /\ RelayIdle

\* the SELECT of a password-reset handler resolves and the handler runs up
\* to its next await
ResetSelect(h) ==
  /\ web.http[h].pc = "select"
  /\ web.http[h].route \in ResetRoutes
  /\ LET me == web.http[h]
         user == web.users[Account]
         saw == [me EXCEPT !.locked = user.locked]
         answer(status, message) ==
           [HttpInit EXCEPT !.pc = "done", !.route = me.route,
                            !.locked = user.locked,
                            !.status = status, !.message = message]
     IN  \/ /\ me.route = "forgot-password"
            /\ \/ /\ user.locked
                  /\ web' = [web EXCEPT !.http[h] = answer(429, "locked")]
               \/ /\ ~user.locked
                  /\ \E otp \in Otps :
                       web' = [web EXCEPT !.http[h] =
                                 [saw EXCEPT !.pc = "update", !.otp = otp]]
         \/ /\ me.route = "verify-otp"
            /\ \/ /\ user.locked
                  /\ web' = [web EXCEPT !.http[h] = answer(429, "locked")]
               \/ /\ ~user.locked
                  /\ user.reset_password_token # me.otp
                  /\ user.otp_attempts <= OtpLimit
                  /\ web' = [web EXCEPT !.http[h] =
                               [saw EXCEPT !.pc = "update", !.otp = 0,
                                           !.attempts = user.otp_attempts + 1]]
               \/ /\ ~user.locked
                  /\ user.reset_password_token = me.otp
                  /\ web' = [web EXCEPT !.http[h] =
                               IF user.expired
                               THEN answer(400, "OTP has expired")
                               ELSE answer(200, "OTP verified successfully")]
         \/ /\ me.route = "reset-password"
            /\ web' = [web EXCEPT !.http[h] =
                         IF user.reset_password_token # me.otp
                         THEN answer(400, "Invalid OTP")
                         ELSE IF user.expired
                         THEN answer(400, "OTP expired")
                         ELSE [saw EXCEPT !.pc = "update"]]
  /\ RelayIdle

\* the UPDATE of a password-reset handler resolves and the handler answers
\* (forgot-password: after its sendEmail returned sent)
ResetUpdate(h) ==
  /\ web.http[h].pc = "update"
  /\ web.http[h].route \in ResetRoutes
  /\ LET me == web.http[h]
         user == web.users[Account]
     IN  \/ /\ me.route = "forgot-password"
            /\ \E sent \in BOOLEAN :
                 web' = [web EXCEPT
                   !.users[Account] =
                     [user EXCEPT !.reset_password_token = me.otp,
                                  !.expired = FALSE, !.otp_attempts = 0],
                   !.http[h] =
                     IF sent THEN Respond(h, 200, "OTP sent to your email")
                     ELSE Respond(h, 500, "Failed to send OTP email")]
         \/ /\ me.route = "verify-otp"
            /\ web' = [web EXCEPT
                 !.users[Account] =
                   [user EXCEPT !.otp_attempts = me.attempts,
                                !.locked = IF me.attempts >= OtpLimit
                                           THEN TRUE ELSE @],
                 !.http[h] = Respond(h, 400, "Invalid OTP")]
         \/ /\ me.route = "reset-password"
            /\ web' = [web EXCEPT
                 !.users[Account] =
                   [user EXCEPT !.password = me.newPassword,
                                !.reset_password_token = 0,
                                !.expired = FALSE, !.otp_attempts = 0,
                                !.locked = FALSE],
                 !.http[h] = Respond(h, 200, "Password updated successfully")]
  /\ RelayIdle

\* ten minutes pass after an OTP was issued
OtpExpires ==
  /\ web.users[Account].reset_password_token # 0
  /\ ~web.users[Account].expired
  /\ web' = [web EXCEPT !.users[Account].expired = TRUE]
  /\ RelayIdle

\* twenty-four hours pass after the account was locked; an OTP issued
\* before that has expired too
LockExpires ==
  /\ web.users[Account].locked
  /\ web' = [web EXCEPT !.users[Account].locked = FALSE,
                        !.users[Account].expired =
                          (web.users[Account].reset_password_token # 0)]
  /\ RelayIdle

NextReset ==
  \/ \E h \in Https, body \in ResetInputs : ResetRequest(h, body)
  \/ \E h \in Https : ResetSelect(h)
  \/ \E h \in Https : ResetUpdate(h)
  \/ OtpExpires
  \/ LockExpires

SpecReset == InitWeb(WebInit) /\ [][NextReset]_vars

\* C31: a password-reset request whose lookup finds the account OTP-locked
\* is refused with status 429 and neither changes the password nor tells
\* whether the OTP is correct, on all three routes
C31_LockedAccountRefuses ==
  \A h \in Https :
    (/\ web.http[h].route \in ResetRoutes
     /\ web.http[h].pc \in {"update", "done"}
     /\ web.http[h].locked)
    => (web.http[h].pc = "done" /\ web.http[h].status = 429)

\* handler h takes the step in which its UPDATE of /reset-password writes
\* the new password
ResetWrites(h) ==
  /\ web.http[h].route = "reset-password"
  /\ web.http[h].pc = "update"
  /\ web'.http[h].pc = "done"

\* C32: /reset-password writes a new password only while the stored
\* reset_password_token equals the OTP the request supplied: once a reset
\* has cleared the token, or /forgot-password has replaced it, that OTP
\* changes the password no more
C32_OtpUsedOnce ==
  [][\A h \in Https :
       ResetWrites(h)
       => web.users[Account].reset_password_token = web.http[h].otp]_vars

----------------------------------------------------------------------------
(* finalserver.js: checkAndSendReminders, started by cron every minute.     *)
(* An execution is cut at its awaits: the SELECT, then for each row the     *)
(* UPDATE and the sendEmail                                                 *)

\* the rows the SELECT returns: unsent and due, in id order
RECURSIVE DueFrom(_)
DueFrom(k) ==
  IF k > MaxReminders THEN <<>>
  ELSE LET r == web.reminders[k]
       IN  (IF r.live /\ ~r.reminder_sent /\ r.due THEN <<k>> ELSE <<>>)
             \o DueFrom(k + 1)

DueReminders == DueFrom(1)

\* the for loop of execution j moves on to its next row, or the execution
\* ends
NextReminder(j) ==
  IF web.jobs[j].at < Len(web.jobs[j].reminders)
  THEN [web.jobs[j] EXCEPT !.pc = "update", !.at = @ + 1]
  ELSE JobInit

\* cron starts an execution, whether or not an earlier one is under way
CronTick(j) ==
  /\ web.jobs[j].pc = "idle"
  /\ web' = [web EXCEPT !.jobs[j].pc = "select"]
  /\ RelayIdle

\* the SELECT of execution j resolves (ok) or throws
JobSelect(j) ==
  /\ web.jobs[j].pc = "select"
  /\ \E ok \in BOOLEAN :
       web' = [web EXCEPT !.jobs[j] =
                 IF ok /\ DueReminders # <<>>
                 THEN [pc |-> "update", reminders |-> DueReminders, at |-> 1]
                 ELSE JobInit]
  /\ RelayIdle

\* the UPDATE of the row at hand resolves and sendEmail is called, or the
\* UPDATE throws and the inner catch moves on
JobUpdate(j) ==
  /\ web.jobs[j].pc = "update"
  /\ LET k == web.jobs[j].reminders[web.jobs[j].at]
     IN  \E ok \in BOOLEAN :
           web' = IF ok
                  THEN [web EXCEPT !.reminders[k].reminder_sent = TRUE,
                                   !.jobs[j].pc = "email"]
                  ELSE [web EXCEPT !.jobs[j] = NextReminder(j)]
  /\ RelayIdle

\* sendEmail returns: true after the mail went out, false after the mail
\* API threw; the loop ignores the value
JobEmail(j) ==
  /\ web.jobs[j].pc = "email"
  /\ LET k == web.jobs[j].reminders[web.jobs[j].at]
     IN  \E sent \in BOOLEAN :
           web' = [web EXCEPT
                     !.reminders[k].mails =
                       IF sent /\ @ < MaxMails THEN @ + 1 ELSE @,
                     !.jobs[j] = NextReminder(j)]
  /\ RelayIdle

\* the clock reaches reminder_time of row k
ReminderDue(k) ==
  /\ web.reminders[k].live
  /\ ~web.reminders[k].due
  /\ web' = [web EXCEPT !.reminders[k].due = TRUE]
  /\ RelayIdle

\* the reminders table holds unsent rows of contests that lie ahead
InitCron ==
  InitWeb([WebInit EXCEPT !.reminders =
             [k \in ReminderIds |-> [ReminderInit EXCEPT !.live = TRUE,
                                                        !.contest = k]]])

NextCron ==
  \/ \E j \in Jobs : CronTick(j)
  \/ \E j \in Jobs : JobSelect(j)
  \/ \E j \in Jobs : JobUpdate(j)
  \/ \E j \in Jobs : JobEmail(j)
  \/ \E k \in ReminderIds : ReminderDue(k)

SpecCron == InitCron /\ [][NextCron]_vars

\* C33: every reminder row is emailed at most once, however the executions
\* of checkAndSendReminders overlap
C33_EmailedAtMostOnce ==
  \A k \in ReminderIds : web.reminders[k].mails <= 1

\* execution j has marked row k and its sendEmail for it has not returned
Mailing(j, k) ==
  /\ web.jobs[j].pc = "email"
  /\ web.jobs[j].reminders[web.jobs[j].at] = k

\* C34: a row carries reminder_sent = TRUE only if its email went out (or
\* its sendEmail is still under way); a row whose sending failed stays
\* unsent for a later execution
C34_SentOnlyIfEmailed ==
  \A k \in ReminderIds :
    (web.reminders[k].reminder_sent /\ web.reminders[k].mails = 0)
    => \E j \in Jobs : Mailing(j, k)

----------------------------------------------------------------------------
(* finalserver.js: POST /api/reminders and POST /api/reminders/cancel of    *)
(* one user.  A handler is cut at its awaits: the SELECT of an existing     *)
(* row, the SELECT of the contest, the INSERT; the DELETE                   *)

ReminderRoutes == {"reminders", "reminders/cancel"}

\* the user whose session the requests carry (session 0: no userId)
Caller == 1

\* the unsent rows of the caller for contest c
Unsent(c) ==
  {k \in ReminderIds : /\ web.reminders[k].live
                       /\ web.reminders[k].contest = c
                       /\ ~web.reminders[k].reminder_sent}

\* the slots that hold no row
FreeSlots == {k \in ReminderIds : ~web.reminders[k].live}

\* a request reaches one of the two routes: authenticate, the contestId
\* check, and the handler up to its first query
ReminderRequest(h, route, session, contestId) ==
  /\ web.http[h].pc \in {"free", "done"}
  /\ LET fresh == [HttpInit EXCEPT !.route = route, !.session = session,
                                   !.contestId = contestId]
     IN  web' = [web EXCEPT !.http[h] =
           IF session = 0
           THEN [fresh EXCEPT !.pc = "done", !.status = 401,
                              !.message = "Not authenticated"]
           ELSE IF contestId = 0
           THEN [fresh EXCEPT !.pc = "done", !.status = 400,
                              !.message = "contestId is required"]
           ELSE [fresh EXCEPT !.pc = IF route = "reminders"
                                     THEN "existing" ELSE "delete"]]
  /\ RelayIdle

\* SELECT id FROM reminders ... AND reminder_sent = FALSE resolves
ReminderExisting(h) ==
  /\ web.http[h].pc = "existing"
  /\ web' = [web EXCEPT !.http[h] =
       IF Unsent(web.http[h].contestId) # {}
       THEN [@ EXCEPT !.pc = "done", !.status = 400,
                      !.message = "You already have an active reminder"]
       ELSE [@ EXCEPT !.pc = "contest"]]
  /\ RelayIdle

\* SELECT start_time FROM contests resolves
ReminderContest(h) ==
  /\ web.http[h].pc = "contest"
  /\ web' = [web EXCEPT !.http[h] =
       IF web.http[h].contestId \notin ContestIds
       THEN [@ EXCEPT !.pc = "done", !.status = 404,
                      !.message = "Contest not found"]
       ELSE [@ EXCEPT !.pc = "insert"]]
  /\ RelayIdle

\* the INSERT resolves; soon: the contest starts within thirty minutes, so
\* reminder_time is now
ReminderInsert(h) ==
  /\ web.http[h].pc = "insert"
  /\ FreeSlots # {}
  /\ LET k == CHOOSE f \in FreeSlots : \A g \in FreeSlots : f <= g
     IN  \E soon \in BOOLEAN :
           web' = [web EXCEPT
             !.reminders[k] = [ReminderInit EXCEPT
                                 !.live = TRUE,
                                 !.contest = web.http[h].contestId,
                                 !.due = soon],
             !.http[h] = [@ EXCEPT !.pc = "done", !.status = 200,
                                   !.message = "Reminder set successfully"]]
  /\ RelayIdle

\* the DELETE of /api/reminders/cancel resolves
ReminderDelete(h) ==
  /\ web.http[h].pc = "delete"
  /\ LET gone == Unsent(web.http[h].contestId)
     IN  web' = [web EXCEPT
           !.reminders = [k \in ReminderIds |->
                            IF k \in gone THEN ReminderInit ELSE @[k]],
           !.http[h] =
             IF gone # {}
             THEN [@ EXCEPT !.pc = "done", !.status = 200,
                            !.message = "Reminder cancelled successfully"]
             ELSE [@ EXCEPT !.pc = "done", !.status = 404,
                            !.message = "No active reminder found"]]
  /\ RelayIdle

NextReminders ==
  \/ \E h \in Https, route \in ReminderRoutes, session \in {0, Caller},
        contestId \in ContestInputs :
       ReminderRequest(h, route, session, contestId)
  \/ \E h \in Https : ReminderExisting(h)
  \/ \E h \in Https : ReminderContest(h)
  \/ \E h \in Https : ReminderInsert(h)
  \/ \E h \in Https : ReminderDelete(h)

SpecReminders == InitWeb(WebInit) /\ [][NextReminders]_vars

\* C35: at every moment the reminders table holds at most one unsent row
\* per (user, contest) pair, however the POST /api/reminders and POST
\* /api/reminders/cancel requests of the user interleave
C35_OneUnsentPerPair ==
  \A c \in ContestIds : Cardinality(Unsent(c)) <= 1

----------------------------------------------------------------------------
(* finalserver.js: the /api/user/:id routes.  The :id path parameter is     *)
(* text; the handler compares parseInt(:id) with the session's userId and   *)
(* hands the text itself to the query, where MySQL compares it with the     *)
(* numeric id column                                                        *)

UserRoutes == {"GET user", "PUT user", "change-password", "profile-data",
               "avatar"}

\* the characters of :id, and the values :id may take
IdChars == {"0", "1", "e", "x"}
IdTexts == UNION {[1..n -> IdChars] : n \in 1..MaxIdLen}

\* the userId a session may hold (0: none)
SessionIds == {0} \cup UserIds

IsDigit(c) == c \in {"0", "1"}

DigitValue(c) == IF c = "1" THEN 1 ELSE 0

\* the digits s starts with
RECURSIVE LeadDigits(_)
LeadDigits(s) ==
  IF s = <<>> \/ ~IsDigit(Head(s)) THEN <<>>
  ELSE <<Head(s)>> \o LeadDigits(Tail(s))

\* the number a string of digits denotes
RECURSIVE Decimal(_)
Decimal(ds) ==
  IF ds = <<>> THEN 0
  ELSE 10 * Decimal(SubSeq(ds, 1, Len(ds) - 1)) + DigitValue(ds[Len(ds)])

RECURSIVE Pow10(_)
Pow10(n) == IF n = 0 THEN 1 ELSE 10 * Pow10(n - 1)

\* what parseInt makes of NaN is equal to no userId
NaN == 0 - 1

\* parseInt(s): the leading digits, read in base ten; NaN without any
parseInt(s) ==
  IF LeadDigits(s) = <<>> THEN NaN ELSE Decimal(LeadDigits(s))

\* the number MySQL compares with the id column when the parameter is the
\* text s: the leading digits, scaled by an exponent part "e<digits>" when
\* one follows; 0 without leading digits
SqlNumber(s) ==
  LET m == LeadDigits(s)
      rest == SubSeq(s, Len(m) + 1, Len(s))
      x == IF rest # <<>> /\ Head(rest) = "e"
           THEN LeadDigits(Tail(rest)) ELSE <<>>
  IN  IF m = <<>> THEN 0
      ELSE IF x # <<>> THEN Decimal(m) * Pow10(Decimal(x))
      ELSE Decimal(m)

\* the rows that WHERE id = ? selects for the parameter s
RowsWhereId(s) == {u \in UserIds : u = SqlNumber(s)}

\* the handler that serves the /api/user requests, one at a time
UserHttps == {1}

\* a request reaches one of the routes: authenticate, the comparison of
\* :id with the session, then the body (complete: every required
\* field, or the uploaded file, is there)
UserRequest(h, route, session, id, complete) ==
  /\ web.http[h].pc = "free"
  /\ LET fresh == [HttpInit EXCEPT !.route = route, !.session = session,
                                   !.id = id]
     IN  web' = [web EXCEPT !.http[h] =
           IF session = 0
           THEN [fresh EXCEPT !.pc = "done", !.status = 401,
                              !.message = "Not authenticated"]
           ELSE IF parseInt(id) # session
           THEN [fresh EXCEPT !.pc = "done", !.status = 403,
                              !.message = "Forbidden"]
           ELSE IF ~complete /\ route \in {"PUT user", "change-password",
                                           "avatar"}
           THEN [fresh EXCEPT !.pc = "done", !.status = 400,
                              !.message = "required"]
           ELSE [fresh EXCEPT !.pc = "query"]]
  /\ RelayIdle

\* the query of the handler resolves: the SELECT of the two GET routes and
\* of change-password (match: bcrypt.compare accepts currentPassword), the
\* UPDATE of PUT and of avatar
UserQuery(h) ==
  /\ web.http[h].pc = "query"
  /\ LET me == web.http[h]
         rows == RowsWhereId(me.id)
         written(field) ==
           [u \in UserIds |->
              IF u \in rows THEN [web.users[u] EXCEPT ![field] = 1]
              ELSE web.users[u]]
         answer(status, message) ==
           [me EXCEPT !.pc = "done", !.rows = rows, !.status = status,
                      !.message = message]
     IN  \/ /\ me.route \in {"GET user", "profile-data"}
            /\ web' = [web EXCEPT !.http[h] =
                         IF rows = {} THEN answer(404, "User not found")
                         ELSE answer(200, "user")]
         \/ /\ me.route = "PUT user"
            /\ web' = [web EXCEPT
                         !.users = written("full_name"),
                         !.http[h] = answer(200, "Profile updated")]
         \/ /\ me.route = "avatar"
            /\ web' = [web EXCEPT
                         !.users = written("avatar_url"),
                         !.http[h] = answer(200, "newAvatarUrl")]
         \/ /\ me.route = "change-password"
            /\ \E match \in BOOLEAN :
                 web' = [web EXCEPT !.http[h] =
                   IF rows = {} THEN answer(404, "User not found")
                   ELSE IF ~match
                   THEN answer(401, "Current password is incorrect")
                   ELSE [me EXCEPT !.pc = "update", !.rows = rows]]
  /\ RelayIdle

\* the UPDATE of change-password resolves
UserUpdate(h) ==
  /\ web.http[h].pc = "update"
  /\ web.http[h].route = "change-password"
  /\ web' = [web EXCEPT
       !.users = [u \in UserIds |->
                    IF u \in RowsWhereId(web.http[h].id)
                    THEN [@[u] EXCEPT !.password = 1] ELSE @[u]],
       !.http[h] = [@ EXCEPT !.pc = "done", !.status = 200,
                             !.message = "Password changed successfully"]]
  /\ RelayIdle

\* the response has gone out and the handler's locals are dropped
UserEnd(h) ==
  /\ web.http[h].pc = "done"
  /\ web.http[h].route \in UserRoutes
  /\ web' = [web EXCEPT !.http[h] = HttpInit]
  /\ RelayIdle

\* the bodies of the requests: whether the required fields, or the file,
\* are there matters to the routes that write
UserInputs ==
  [route : {"GET user", "profile-data"}, complete : {TRUE}]
    \cup [route : {"PUT user", "change-password", "avatar"},
          complete : BOOLEAN]

NextUser ==
  \/ \E h \in UserHttps, in \in UserInputs, session \in SessionIds,
        id \in IdTexts :
       UserRequest(h, in.route, session, id, in.complete)
  \/ \E h \in UserHttps : UserQuery(h)
  \/ \E h \in UserHttps : UserUpdate(h)
  \/ \E h \in UserHttps : UserEnd(h)

SpecUser == InitWeb(WebInit) /\ [][NextUser]_vars

\* C36: a request to an /api/user/:id route touches no row but that of the
\* user in the caller's session: without a session userId it is answered
\* 401, with an :id that is not the session's userId 403, in both cases
\* without touching a row, and the rows its queries select are the caller's
C36_OwnRowOnly ==
  \A h \in UserHttps :
    web.http[h].route \in UserRoutes
    => /\ web.http[h].rows \subseteq {web.http[h].session}
       /\ (web.http[h].pc = "done" /\ web.http[h].session = 0)
            => (web.http[h].status = 401 /\ web.http[h].rows = {})
       /\ (/\ web.http[h].pc = "done"
           /\ web.http[h].session # 0
           /\ parseInt(web.http[h].id) # web.http[h].session)
            => (web.http[h].status = 403 /\ web.http[h].rows = {})

====
